---- MODULE Spec2Model ----
(***************************************************************************)
(* A model of the two subsystems of striptease that carry state:           *)
(*                                                                         *)
(*   - program_polview's data_stream: the per-polarimeter channel buffers, *)
(*     their sliding window, the snapshot (get) and statistics            *)
(*     (get_stats) reads;                                                  *)
(*   - TestRunner's StripConnection (one-in-flight HTTPS client) and       *)
(*     MainWindow (the scripted command executor).                         *)
(*                                                                         *)
(* Representation of the doubles of data_stream.  An mjd is held as the    *)
(* integer mjd * 86400 (seconds), so that the cut                          *)
(*     mjd < _last_mjd - _ws/86400.                                        *)
(* reads  m < last_mjd - ws  and the abscissa (_last_mjd - mjd)*86400.     *)
(* reads  last_mjd - m.  Means and variances are exact rationals <<n, d>>; *)
(* the square root of get_stats is not taken: the model keeps stdev^2.     *)
(* Floating-point rounding is not modelled.                                *)
(***************************************************************************)
EXTENDS Integers, Sequences, FiniteSets, TLC

\* ------------------------------------------------------------- bounds
\* Number of mjd-carrying frames one stream decodes.
MaxFrames == 3

\* ------------------------------------------------------------ catalog
sci == {"DEMQ1", "DEMU1", "DEMU2", "DEMQ2", "PWRQ1", "PWRU1", "PWRU2", "PWRQ2"}

hk == {"VD0_HK", "VD1_HK", "VD2_HK", "VD3_HK", "VD4_HK", "VD5_HK",
       "ID0_HK", "ID1_HK", "ID2_HK", "ID3_HK", "ID4_HK", "ID5_HK",
       "VG0_HK", "VG1_HK", "VG2_HK", "VG3_HK", "VG4_HK", "VG5_HK", "VG4A_HK", "VG5A_HK",
       "IG0_HK", "IG1_HK", "IG2_HK", "IG3_HK", "IG4_HK", "IG5_HK", "IG4A_HK", "IG5A_HK",
       "VPIN0_HK", "VPIN1_HK", "VPIN2_HK", "VPIN3_HK",
       "IPIN0_HK", "IPIN1_HK", "IPIN2_HK", "IPIN3_HK"}

\* The window a stream is constructed with (seconds).
DefaultWs == 300

\* ------------------------------------------------------------- inputs
\* Channels the frames of the model mention; every other channel of the
\* catalog is present in _data and stays empty.
FrameSci == {"DEMQ1"}
FrameHk == {"VG3_HK"}
SciValues == {7}
HkValues == {10, 12, 14}
\* mjd of a frame and window of w_sec(ws), in seconds.
MjdValues == {0, 1, 2}
WindowValues == {0, 1}
\* Keys get(key) is called with (data_chart::update passes catalog keys).
QueryKeys == {"DEMQ1", "VG3_HK"}

\* A decoded JSON document: the members decode() looks at.  A document
\* without "bias" and one whose "bias" has no HK member differ in has_bias.
NoMembers == [k \in {} |-> 0]
MjdFrames ==
    [has_mjd : {TRUE}, mjd : MjdValues,
     sci : UNION {[S -> SciValues] : S \in SUBSET FrameSci},
     has_bias : {TRUE},
     bias : UNION {[S -> HkValues] : S \in SUBSET FrameHk}]
    \cup
    [has_mjd : {TRUE}, mjd : MjdValues,
     sci : UNION {[S -> SciValues] : S \in SUBSET FrameSci},
     has_bias : {FALSE}, bias : {NoMembers}]
NoMjdFrames ==
    [has_mjd : {FALSE}, mjd : {0}, sci : [FrameSci -> SciValues],
     has_bias : {TRUE}, bias : [FrameHk -> {10}]]
Frames == MjdFrames \cup NoMjdFrames

VARIABLES
    data,       \* _data: key -> [first: deque of mjd, second: deque of value]
    ws,         \* _ws
    last_mjd,   \* _last_mjd
    n_frames,   \* number of mjd-carrying frames decoded so far
    in_order,   \* every frame so far carried an mjd >= the largest before it
    ret,        \* what the member function that ran last returned
    mtx,        \* _m: the thread that holds it
    rd,         \* where the reader thread is in decode, and with which document
    gop         \* where the GUI thread is in get / get_stats / w_sec

lvars == <<mtx, rd, gop>>
svars == <<data, ws, last_mjd, n_frames, in_order, ret, lvars>>

EmptyBuf == [first |-> <<>>, second |-> <<>>]
NoRet == [kind |-> "none"]

\* ------------------------------------------------------- data_stream
\* Mutant of PushBack: push_front on both deques.
PushFront(buf, mjd, v) ==
    [first |-> <<mjd>> \o buf.first, second |-> <<v>> \o buf.second]

\* deque::push_back on both deques of one channel.
PushBack(buf, mjd, v) ==
    [first |-> Append(buf.first, mjd), second |-> Append(buf.second, v)]

\* Mutant of TrimBuf: the loop forgets item.second.second.pop_front().
RECURSIVE TrimBufFirstOnly(_, _)
TrimBufFirstOnly(buf, mjd_cut) ==
    IF buf.first # <<>> /\ Head(buf.first) < mjd_cut
    THEN TrimBufFirstOnly([first |-> Tail(buf.first), second |-> buf.second], mjd_cut)
    ELSE buf

\* Mutant of TrimBuf: an `if` in place of the `while`.
TrimBufOnce(buf, mjd_cut) ==
    IF buf.first # <<>> /\ Head(buf.first) < mjd_cut
    THEN [first |-> Tail(buf.first), second |-> Tail(buf.second)]
    ELSE buf

\* Mutant of TrimBuf: the head is popped also when it is at the cut.
RECURSIVE TrimBufInclusive(_, _)
TrimBufInclusive(buf, mjd_cut) ==
    IF buf.first # <<>> /\ Head(buf.first) <= mjd_cut
    THEN TrimBufInclusive([first |-> Tail(buf.first), second |-> Tail(buf.second)], mjd_cut)
    ELSE buf

\* The while loop of decode(): pop the head of both deques while the head
\* mjd is below the cut.
RECURSIVE TrimBuf(_, _)
TrimBuf(buf, mjd_cut) ==
    IF buf.first # <<>> /\ Head(buf.first) < mjd_cut
    THEN TrimBuf([first |-> Tail(buf.first), second |-> Tail(buf.second)], mjd_cut)
    ELSE buf

\* The two append loops of decode(): SCI keys at top level, HK keys under "bias".
AppendFrame(d, dat) ==
    [k \in DOMAIN dat |->
        IF k \in sci /\ k \in DOMAIN d.sci
        THEN PushBack(dat[k], d.mjd, d.sci[k])
        ELSE IF d.has_bias /\ k \in hk /\ k \in DOMAIN d.bias
        THEN PushBack(dat[k], d.mjd, d.bias[k])
        ELSE dat[k]]

\* Mutant of NewLastMjd: the last mjd follows every frame.
NewLastMjdAlways(mjd, last) == mjd

NewLastMjd(mjd, last) == IF mjd > last THEN mjd ELSE last

MjdCut(last, w) == last - w

TrimAll(dat, mjd_cut) == [k \in DOMAIN dat |-> TrimBuf(dat[k], mjd_cut)]

\* data_stream::decode
decode(d) ==
    IF ~d.has_mjd
    THEN /\ ret' = NoRet
         /\ UNCHANGED <<data, ws, last_mjd, n_frames, in_order>>
    ELSE /\ n_frames < MaxFrames
         /\ LET appended == AppendFrame(d, data)
                last == NewLastMjd(d.mjd, last_mjd)
            IN /\ last_mjd' = last
               /\ data' = TrimAll(appended, MjdCut(last, ws))
         /\ n_frames' = n_frames + 1
         /\ in_order' = (in_order /\ d.mjd >= last_mjd)
         /\ ret' = NoRet
         /\ UNCHANGED ws

\* Mutant of w_sec: the new window is applied to the buffers at once.
w_sec_trim_now(w) ==
    /\ ws' = w
    /\ data' = TrimAll(data, MjdCut(last_mjd, w))
    /\ ret' = NoRet
    /\ UNCHANGED <<last_mjd, n_frames, in_order>>

\* data_stream::w_sec(double)
w_sec(w) ==
    /\ ws' = w
    /\ ret' = NoRet
    /\ UNCHANGED <<data, last_mjd, n_frames, in_order>>

\* Mutant of Points: the abscissa with the operands of the difference swapped.
PointsSwapped(buf, last) ==
    [i \in 1..Len(buf.first) |-> [x |-> buf.first[i] - last, y |-> buf.second[i]]]

\* The point vector get(key) builds from one channel.
Points(buf, last) ==
    [i \in 1..Len(buf.first) |-> [x |-> last - buf.first[i], y |-> buf.second[i]]]

\* std::map::operator[]: a key that is absent is inserted with empty deques.
Subscript(dat, key) ==
    IF key \in DOMAIN dat THEN dat ELSE dat @@ (key :> EmptyBuf)

\* data_stream::get(const std::string&)
get(key) ==
    /\ data' = Subscript(data, key)
    /\ ret' = [kind |-> "points", key |-> key, points |-> Points(data'[key], last_mjd)]
    /\ UNCHANGED <<ws, last_mjd, n_frames, in_order>>

RECURSIVE Accumulate(_, _)
Accumulate(v, init) ==
    IF v = <<>> THEN init ELSE Accumulate(Tail(v), init + Head(v))

\* Mutant of ChannelStats: the sample formula (N - 1) for the variance.
ChannelStatsSample(v) ==
    LET N == Len(v)
        sum == Accumulate(v, 0)
        diff == [i \in 1..N |-> N * v[i] - sum]
        sq == [i \in 1..N |-> diff[i] * diff[i]]
        sq_sum == Accumulate(sq, 0)
    IN [mean |-> <<sum, N>>, stdev_sq |-> <<sq_sum, N * N * (N - 1)>>]

\* mean and stdev^2 of one value deque, as get_stats computes them:
\*   sum = accumulate(v); mean = sum / N; diff = v - mean;
\*   sq_sum = inner_product(diff, diff); stdev = sqrt(sq_sum / N).
\* With N = Len(v): mean = sum/N, diff[i] = (N*v[i] - sum)/N,
\* sq_sum = (SUM (N*v[i] - sum)^2)/N^2, stdev^2 = sq_sum/N.
ChannelStats(v) ==
    LET N == Len(v)
        sum == Accumulate(v, 0)
        diff == [i \in 1..N |-> N * v[i] - sum]
        sq == [i \in 1..N |-> diff[i] * diff[i]]
        sq_sum == Accumulate(sq, 0)
    IN [mean |-> <<sum, N>>, stdev_sq |-> <<sq_sum, N * N * N>>]

\* Mutant of StatKeys: the `continue` on SCI keys is missing.
StatKeysNoSciSkip(dat) == {k \in DOMAIN dat : dat[k].second # <<>>}

\* The keys get_stats reports: the loop's two `continue`s.
StatKeys(dat) == {k \in DOMAIN dat : dat[k].second # <<>> /\ k \notin sci}

StatsMap(dat) == [k \in StatKeys(dat) |-> ChannelStats(dat[k].second)]

\* data_stream::get_stats
get_stats ==
    /\ ret' = [kind |-> "stats", stats |-> StatsMap(data)]
    /\ UNCHANGED <<data, ws, last_mjd, n_frames, in_order>>

\* main.cpp's l_update_stats for one polarimeter: every HK row is set to
\* "NaN", then the rows get_stats reports are overwritten with numbers.  A
\* formatted number ("%.2e") is held as the text kind "num".
hk_names == hk
UpdateStatsRows(m) ==
    [k \in hk_names |-> IF k \in DOMAIN m THEN "num" ELSE "NaN"]

\* data_stream::data_stream
StreamInit ==
    /\ data = [k \in sci \cup hk |-> EmptyBuf]
    /\ ws = DefaultWs
    /\ last_mjd = 0
    /\ n_frames = 0
    /\ in_order = TRUE
    /\ ret = NoRet
    /\ mtx = "free"
    /\ rd = [pc |-> "out"]
    /\ gop = [pc |-> "out"]


\* ==================================================== polview
\* ------------------------------------------------------------- bounds
\* data_stream objects constructed in one run of the program.
MaxStreams == 2
\* Frames the backend writes into one FIFO.
MaxFed == 1

\* Attempts of add_pol to create the FIFO.
MaxTries == 5
\* Characters of randomString().
SuffixLen == 10

\* ------------------------------------------------------------- inputs
\* The check boxes of polarimeter_tree and the polarimeter each one names;
\* the configuration read from stdin may name a polarimeter twice.
Items == {1, 2, 3}
ItemPol == <<"G0", "G0", "G1">>
\* The keys of d_stream in the order std::map iterates them.
PolOrder == <<"G0", "G1">>
Pols == {PolOrder[i] : i \in 1..Len(PolOrder)}

\* Values rand() returns; one call of randomString() is ten of them.
RandValues == {0, 27}
Draws == {[i \in 1..SuffixLen |-> r] : r \in RandValues}

\* No stream: the key is not in d_stream / no object behind the pointer.
NoStream == 0

VARIABLES
    checked,     \* check state of every item of polarimeter_tree
    pols,        \* main: std::set<QString> pols
    d_stream,    \* main: d_stream, a stream id for every key of the map
    streams,     \* the data_stream objects: path, _go, position of _th, frames decoded
    n_streams,   \* data_stream objects constructed so far
    fs,          \* paths of the FIFOs that exist in /tmp
    out,         \* objects written to stdout
    bk_seen,     \* objects of stdout the backend has read
    bk_known,    \* FIFOs the backend was told to attach and has not opened
    bk_open,     \* FIFOs the backend holds open for writing
    gui          \* where the main thread is

rvars == <<checked, pols, d_stream, streams, n_streams, fs, out,
           bk_seen, bk_known, bk_open, gui>>

\* ------------------------------------------------ command_stream
\* A variant that draws lower-case letters, rand() % 26 + 97.
randomStringLower(draw) == [i \in 1..SuffixLen |-> (draw[i] % 26) + 97]

\* randomString(): ten characters, each rand() % 26 + 65.
randomString(draw) == [i \in 1..SuffixLen |-> (draw[i] % 26) + 65]

\* "/tmp/strip." + pol + "." + randomString()
FifoPath(pol, suffix) == <<"/tmp/strip.", pol, ".", suffix>>

\* Mutant of TryMkfifo: the throw after the loop is missing, the path of the
\* last attempt is returned.
TryMkfifoNoThrow(pol, draws, i, files) ==
    LET free == {j \in i..MaxTries : FifoPath(pol, randomString(draws[j])) \notin files}
    IN IF free = {}
       THEN [is_ok |-> TRUE, path |-> FifoPath(pol, randomString(draws[MaxTries]))]
       ELSE [is_ok |-> TRUE,
             path |-> FifoPath(pol, randomString(draws[CHOOSE j \in free : \A k \in free : j <= k]))]

\* The loop of add_pol: the path of the first attempt whose mkfifo
\* succeeds, or none when all fail (mkfifo fails on a path that exists).
RECURSIVE TryMkfifo(_, _, _, _)
TryMkfifo(pol, draws, i, files) ==
    IF i > MaxTries THEN [is_ok |-> FALSE, path |-> <<>>]
    ELSE LET path == FifoPath(pol, randomString(draws[i]))
         IN IF path \notin files THEN [is_ok |-> TRUE, path |-> path]
            ELSE TryMkfifo(pol, draws, i + 1, files)

AttachMsg(pol, path) == [cmd |-> "attach_pipe", pol |-> pol, path |-> path]
DetachMsg(pol) == [cmd |-> "detach_pipe", pol |-> pol]

\* ---------------------------------------------------- data_stream
\* data_stream::data_stream(path): _go(true), thread not started, buffers empty.
NewStream(path) == [alive |-> TRUE, path |-> path, go |-> TRUE, th |-> "none", fed |-> 0]
\* Storage that holds no data_stream.
Freed == [alive |-> FALSE, path |-> <<>>, go |-> FALSE, th |-> "none", fed |-> 0]

\* data_stream::stop
stop(ss, s) == [ss EXCEPT ![s].go = FALSE]
\* data_stream::start
start(ss, s) == [ss EXCEPT ![s].th = "open"]

\* The main thread in the event loop, and in the places where it blocks.
Idling == [pc |-> "idle", old |-> NoStream, new |-> NoStream, key |-> 0]
Joining(old, new) == [pc |-> "joining", old |-> old, new |-> new, key |-> 0]
Teardown(k) == [pc |-> "teardown", old |-> NoStream, new |-> NoStream, key |-> k]
TeardownJoin(k, old) == [pc |-> "td_join", old |-> old, new |-> NoStream, key |-> k]
Gone(how) == [pc |-> how, old |-> NoStream, new |-> NoStream, key |-> 0]

\* The process runs: main has not returned and std::terminate was not called.
Running == gui.pc \notin {"exited", "terminated"}

RegInit ==
    /\ checked = [i \in Items |-> FALSE]
    /\ pols = {}
    /\ d_stream = [p \in Pols |-> NoStream]
    /\ streams = [s \in 1..MaxStreams |-> Freed]
    /\ n_streams = 0
    /\ fs = {}
    /\ out = <<>>
    /\ bk_seen = 0
    /\ bk_known = {}
    /\ bk_open = {}
    /\ gui = Idling

\* ================================================== TestRunner
\* ------------------------------------------------------------- bounds
\* Elements of a JSON array handed to loadFromJson.
MaxScript == 2
\* Readings of the wall clock, in seconds.
ClockValues == {0, 1}

\* currentCommandIdx when no command awaits its answer.
Idle == -1
\* QDateTime(): the null time of a command that has not run.
NullTime == -1
\* reply == nullptr.
NULL == [null |-> TRUE]

EmptyObject == [k \in {} |-> ""]

\* ------------------------------------------------------------- inputs
\* Elements of a script file: a command, a wait, an object without "path"
\* and a value that is not an object.
cmdX == [is_object |-> TRUE,
         m |-> [kind |-> "command", path |-> "/rest/x", command |-> [base_addr |-> "A"]]]
wait1 == [is_object |-> TRUE,
          m |-> [kind |-> "wait", path |-> "", command |-> [wait_time_s |-> 1]]]
noPath == [is_object |-> TRUE, m |-> [kind |-> "log", command |-> [message |-> "hello"]]]
notObject == [is_object |-> FALSE, m |-> EmptyObject]
ElemPool == {cmdX, wait1, noPath, notObject}

SeqsUpTo(S, n) == UNION {[1..k -> S] : k \in 0..n}

\* Contents of a script file: a JSON array, or a JSON value that is none.
Docs ==
    {[is_array |-> TRUE, elems |-> e] : e \in SeqsUpTo(ElemPool, MaxScript)}
    \cup {[is_array |-> FALSE, elems |-> <<>>]}

\* What StripConnection::login meets: a request is posted (configuration file
\* read, or login dialog accepted), the login dialog is rejected, or the
\* configuration file has a syntax error (loadConfigurationFile throws).
LoginOutcomes == {"posted", "rejected", "conf_error"}

\* Server answers.  A status is a sequence of characters.
Chars == {"O", "K", "o", "k", "e", "r"}
StatusOK == <<"O", "K">>
Statuses == {StatusOK, <<"o", "k">>, <<"O", "k">>, <<"e", "r", "r">>}
Bodies ==
    {[is_object |-> FALSE, obj |-> EmptyObject],
     [is_object |-> TRUE, obj |-> EmptyObject]}
    \cup {[is_object |-> TRUE, obj |-> [status |-> s]] : s \in Statuses}
Answers == [transport_error : BOOLEAN, body : Bodies]

\* What a write through an index outside command_list does (undefined
\* behaviour of QList::operator[]): the process dies, or the write lands
\* outside the list and the handler goes on.
UBOutcomes == {"crash", "stray"}

VARIABLES
    command_list,       \* CommandList::command_list (0-based in the code)
    currentCommandIdx,  \* MainWindow::currentCommandIdx
    timerActive,        \* commandTimer->isActive()
    buttonsEnabled,     \* runNextButton / addLogMessageButton enabled
    dryRun,             \* dryRunCheckBox->isChecked()
    loggedIn,           \* StripConnection::loggedIn
    loginInProgress,    \* StripConnection::loginInProgress
    reply,              \* StripConnection::reply
    net,                \* requests the manager has posted and not finished
    now,                \* QDateTime::currentDateTime(), in seconds
    crashed,            \* the process died
    trace               \* the handler that ran last, then what it logged / emitted

evars == <<command_list, currentCommandIdx, timerActive, buttonsEnabled, dryRun,
           loggedIn, loginInProgress, reply, net, now, crashed, trace>>

vars == <<svars, rvars, evars>>

\* The state the handlers act on, as one record.
Cur ==
    [list |-> command_list, idx |-> currentCommandIdx, timer |-> timerActive,
     buttons |-> buttonsEnabled, loggedIn |-> loggedIn, lip |-> loginInProgress,
     reply |-> reply, net |-> net, crashed |-> crashed, tr |-> trace]

Becomes(st) ==
    /\ command_list' = st.list
    /\ currentCommandIdx' = st.idx
    /\ timerActive' = st.timer
    /\ buttonsEnabled' = st.buttons
    /\ loggedIn' = st.loggedIn
    /\ loginInProgress' = st.lip
    /\ reply' = st.reply
    /\ net' = st.net
    /\ crashed' = st.crashed
    /\ trace' = st.tr

Enter(st, handler) == [st EXCEPT !.tr = <<handler>>]

\* MainWindow::logMessage
logMessage(st, msg) == [st EXCEPT !.tr = Append(@, msg)]

\* --------------------------------------------------- CommandList
\* The kinds loadFromJson of src/TestRunner/commandlist.cpp tells apart.
KindToType(m) ==
    IF "kind" \notin DOMAIN m THEN "None"
    ELSE IF m.kind = "command" THEN "Command"
    ELSE IF m.kind = "log" THEN "Log"
    ELSE IF m.kind = "tag" THEN "Tag"
    ELSE "None"

\* The loader MainWindow is written against knows CommandType::Wait: the
\* kind "wait" loads as a Wait command.
CommandTypeOf(m) ==
    IF "kind" \in DOMAIN m /\ m.kind = "wait" THEN "Wait" ELSE KindToType(m)

\* The loop of loadFromJson: the list built so far and whether an element
\* that is not an object stopped it (the throw).
RECURSIVE LoadElems(_, _)
LoadElems(elems, acc) ==
    IF elems = <<>> THEN [ok |-> TRUE, list |-> acc]
    ELSE LET e == Head(elems)
         IN IF ~e.is_object THEN [ok |-> FALSE, list |-> acc]
            ELSE IF "path" \notin DOMAIN e.m \/ "command" \notin DOMAIN e.m
            THEN LoadElems(Tail(elems), acc)
            ELSE LoadElems(Tail(elems),
                           Append(acc, [time |-> NullTime, type |-> CommandTypeOf(e.m),
                                        path |-> e.m.path, parameters |-> e.m.command]))

\* CommandList::loadFromJson
loadFromJson(doc, old) ==
    IF ~doc.is_array THEN [ok |-> FALSE, list |-> old]
    ELSE LoadElems(doc.elems, <<>>)

\* CommandList::resetTimes
resetTimes(list) == [i \in 1..Len(list) |-> [list[i] EXCEPT !.time = NullTime]]

\* ----------------------------------------------- StripConnection
\* Mutant of post: the commandRunning() guard is missing.
postNoGuard(st, path, body) ==
    LET r == [path |-> path, data |-> body]
    IN [st EXCEPT !.reply = r, !.net = Append(@, r)]

\* StripConnection::post
post(st, path, body) ==
    IF st.reply # NULL THEN st
    ELSE LET r == [path |-> path, data |-> body]
         IN [st EXCEPT !.reply = r, !.net = Append(@, r)]

\* StripConnection::login, when loadConfigurationFile does not throw.
login(st, outcome) ==
    IF outcome = "rejected" THEN st
    ELSE [post(st, "rest/login", [user |-> "user", password |-> "password"])
            EXCEPT !.lip = TRUE]

\* StripConnection::logout
logout(st) == post(st, "rest/logout", EmptyObject)

\* StripConnection::send
send(st, path, params) == post(st, path, params)

\* QString::toUpper
ToUpperChar(c) ==
    CASE c = "o" -> "O" [] c = "k" -> "K" [] c = "e" -> "E" [] c = "r" -> "R"
      [] OTHER -> c
ToUpper(s) == [i \in 1..Len(s) |-> ToUpperChar(s[i])]

\* ---------------------------------------------------- MainWindow
\* Mutant of stopTimer: the pending request is dropped with the timer.
stopTimerAborts(st) ==
    [st EXCEPT !.timer = FALSE, !.buttons = TRUE, !.reply = NULL, !.net = <<>>]

startTimer(st) == [st EXCEPT !.timer = TRUE, !.buttons = FALSE]
stopTimer(st) == [st EXCEPT !.timer = FALSE, !.buttons = TRUE]

\* Mutant of on_command_success: the times are cleared instead of one set.
on_command_success_clears(st, t, ub) ==
    IF st.idx = Idle THEN st
    ELSE [st EXCEPT !.list = [i \in 1..Len(st.list) |-> [st.list[i] EXCEPT !.time = NullTime]],
                    !.idx = Idle]

\* Mutant of on_command_success: the time is set, the index is kept.
on_command_success_keeps_idx(st, t, ub) ==
    IF st.idx = Idle \/ st.idx >= Len(st.list) THEN st
    ELSE [st EXCEPT !.list[st.idx + 1].time = t]

\* Mutant of on_command_success: the index is cleared, no time is set.
on_command_success_no_stamp(st, t, ub) ==
    IF st.idx = Idle THEN st ELSE [st EXCEPT !.idx = Idle]

\* MainWindow::on_command_success
on_command_success(st, t, ub) ==
    IF st.idx = Idle THEN st
    ELSE IF st.idx < Len(st.list)
    THEN [st EXCEPT !.list[st.idx + 1].time = t, !.idx = Idle]
    ELSE IF ub = "crash" THEN [st EXCEPT !.crashed = TRUE]
    ELSE [st EXCEPT !.idx = Idle]

\* QVariantMap::operator[] then toInt(): 0 when the key is absent.
WaitTime(cmd) ==
    IF "wait_time_s" \in DOMAIN cmd.parameters THEN cmd.parameters.wait_time_s ELSE 0

\* Mutant of Scan: a wait that has started is taken as done.
RECURSIVE ScanWaitNotTimed(_, _, _, _, _)
ScanWaitNotTimed(st, curIdx, t, dry, ub) ==
    IF curIdx >= Len(st.list)
    THEN stopTimer(logMessage(st, "log:Script completed"))
    ELSE LET curCommand == st.list[curIdx + 1]
         IN IF curCommand.type = "Wait"
            THEN IF curCommand.time = NullTime
                 THEN logMessage([st EXCEPT !.list[curIdx + 1].time = t], "log:Waiting")
                 ELSE ScanWaitNotTimed(st, curIdx + 1, t, dry, ub)
            ELSE IF curCommand.time = NullTime
                 THEN LET s1 == logMessage([st EXCEPT !.idx = curIdx], "log:Running command")
                      IN IF ~dry /\ curCommand.type # "Wait"
                         THEN send(s1, curCommand.path, curCommand.parameters)
                         ELSE on_command_success(s1, t, ub)
                 ELSE ScanWaitNotTimed(st, curIdx + 1, t, dry, ub)

\* Mutant of Scan: an unstarted wait gets its time and the scan goes on.
RECURSIVE ScanWaitNoReturn(_, _, _, _, _)
ScanWaitNoReturn(st, curIdx, t, dry, ub) ==
    IF curIdx >= Len(st.list)
    THEN stopTimer(logMessage(st, "log:Script completed"))
    ELSE LET curCommand == st.list[curIdx + 1]
         IN IF curCommand.type = "Wait"
            THEN IF curCommand.time = NullTime
                 THEN ScanWaitNoReturn(
                          logMessage([st EXCEPT !.list[curIdx + 1].time = t], "log:Waiting"),
                          curIdx + 1, t, dry, ub)
                 ELSE IF t - curCommand.time < WaitTime(curCommand)
                 THEN st
                 ELSE ScanWaitNoReturn(st, curIdx + 1, t, dry, ub)
            ELSE IF curCommand.time = NullTime
                 THEN LET s1 == logMessage([st EXCEPT !.idx = curIdx], "log:Running command")
                      IN IF ~dry /\ curCommand.type # "Wait"
                         THEN send(s1, curCommand.path, curCommand.parameters)
                         ELSE on_command_success(s1, t, ub)
                 ELSE ScanWaitNoReturn(st, curIdx + 1, t, dry, ub)

\* The for loop of on_command_timer_triggered and what follows it.
RECURSIVE Scan(_, _, _, _, _)
Scan(st, curIdx, t, dry, ub) ==
    IF curIdx >= Len(st.list)
    THEN stopTimer(logMessage(st, "log:Script completed"))
    ELSE LET curCommand == st.list[curIdx + 1]
         IN IF curCommand.type = "Wait"
            THEN IF curCommand.time = NullTime
                 THEN logMessage([st EXCEPT !.list[curIdx + 1].time = t], "log:Waiting")
                 ELSE IF t - curCommand.time < WaitTime(curCommand)
                 THEN st
                 ELSE Scan(st, curIdx + 1, t, dry, ub)
            ELSE IF curCommand.time = NullTime
                 THEN LET s1 == logMessage([st EXCEPT !.idx = curIdx], "log:Running command")
                      IN IF ~dry /\ curCommand.type # "Wait"
                         THEN send(s1, curCommand.path, curCommand.parameters)
                         ELSE on_command_success(s1, t, ub)
                 ELSE Scan(st, curIdx + 1, t, dry, ub)

\* The catch block of on_command_timer_triggered.
LoginFailed(st) ==
    [logMessage(st, "log:Error connecting to the server") EXCEPT !.timer = FALSE]

\* The retry loop of on_command_timer_triggered: msleep blocks the thread
\* that would run commandCompleted, so commandRunning() is after the loop
\* what it was before it.
CommandRunningAfterWait(st) == st.reply # NULL

\* Mutant of on_command_timer_triggered: the test of currentCommandIdx is missing.
on_command_timer_triggered_no_guard(st0, outcome, t, dry, ub) ==
    LET st == Enter(st0, "on_command_timer_triggered")
    IN IF ~st.loggedIn
       THEN IF outcome = "conf_error" THEN LoginFailed(st)
            ELSE LET s1 == logMessage(login(st, outcome), "log:Login request to the server")
                 IN IF ~CommandRunningAfterWait(s1) THEN LoginFailed(s1)
                    ELSE Scan(logMessage(s1, "log:Connection to the server has been established"),
                              0, t, dry, ub)
       ELSE Scan(st, 0, t, dry, ub)

\* MainWindow::on_command_timer_triggered
on_command_timer_triggered(st0, outcome, t, dry, ub) ==
    LET st == Enter(st0, "on_command_timer_triggered")
    IN IF st.idx # Idle THEN st
       ELSE IF ~st.loggedIn
       THEN IF outcome = "conf_error" THEN LoginFailed(st)
            ELSE LET s1 == logMessage(login(st, outcome), "log:Login request to the server")
                 IN IF ~CommandRunningAfterWait(s1) THEN LoginFailed(s1)
                    ELSE Scan(logMessage(s1, "log:Connection to the server has been established"),
                              0, t, dry, ub)
       ELSE Scan(st, 0, t, dry, ub)

\* MainWindow::on_connection_error, run by the signal error(message).
EmitError(st, msg) == [st EXCEPT !.tr = Append(@, msg)]

\* The signal success(), which runs MainWindow::on_command_success.
EmitSuccess(st, t, ub) == on_command_success([st EXCEPT !.tr = Append(@, "success")], t, ub)

\* StripConnection::commandCompleted.  err collects errorCondition.
commandCompleted(st0, r, answer, t, ub) ==
    LET st == Enter(st0, "commandCompleted")
        s1 == IF answer.transport_error THEN EmitError(st, "error:transport") ELSE st
        obj == answer.body.obj
        hasStatus == "status" \in DOMAIN obj
        status == IF hasStatus THEN obj.status ELSE <<>>
        s2 == IF answer.body.is_object /\ ~hasStatus
              THEN EmitError(s1, "error:no status") ELSE s1
        s3 == IF ~answer.body.is_object THEN EmitError(s2, "error:invalid JSON")
              ELSE IF ToUpper(status) # StatusOK THEN EmitError(s2, "error:status")
              ELSE EmitSuccess(s2, t, ub)
        errorCondition ==
            \/ answer.transport_error
            \/ ~answer.body.is_object
            \/ ~hasStatus
            \/ ToUpper(status) # StatusOK
        s4 == IF s3.lip /\ ~errorCondition
              THEN [s3 EXCEPT !.lip = FALSE, !.loggedIn = TRUE] ELSE s3
    IN [s4 EXCEPT !.reply = NULL, !.net = Tail(@)]

\* MainWindow::on_addLogMessageButton_clicked
on_addLogMessageButton_clicked(st0) ==
    LET st == Enter(st0, "on_addLogMessageButton_clicked")
    IN IF st.idx # Idle THEN logMessage(st, "log:Failed to send log message")
       ELSE logMessage(send(st, "/rest/log", [level |-> "INFO", message |-> "text"]),
                       "log:Log message sent to server")

\* MainWindow::on_runButton_clicked
on_runButton_clicked(st0) ==
    LET st == Enter(st0, "on_runButton_clicked")
    IN IF st.timer THEN logMessage(stopTimer(st), "log:Command sequence paused")
       ELSE logMessage(startTimer(st), "log:Command sequence (re)started")

\* `delete manager` in ~StripConnection: the replies the manager owns are
\* deleted with it, and a deleted reply emits no finished().  The trace
\* tells whether a pending reply went that way.
deleteManager(st) ==
    IF st.net # <<>> THEN [st EXCEPT !.tr = Append(@, "deleted:reply")] ELSE st

\* Mutant of on_action_reset_connection_triggered: the manager and its
\* pending reply outlive the connection.
reset_keeps_manager(st0) ==
    LET st == Enter(st0, "on_action_reset_connection_triggered")
        old == IF st.loggedIn THEN logout(st) ELSE st
    IN [old EXCEPT !.loggedIn = FALSE, !.lip = FALSE, !.reply = NULL,
                   !.list = resetTimes(@), !.idx = Idle]

\* Mutant of on_action_reset_connection_triggered: resetTimes is not called.
reset_keeps_times(st0) ==
    LET st == Enter(st0, "on_action_reset_connection_triggered")
        old == deleteManager(IF st.loggedIn THEN logout(st) ELSE st)
    IN [old EXCEPT !.loggedIn = FALSE, !.lip = FALSE, !.reply = NULL, !.net = <<>>,
                   !.idx = Idle]

\* MainWindow::on_action_reset_connection_triggered.  ~StripConnection posts
\* a logout when logged in and then deletes the manager, and with it every
\* reply the manager owns.
on_action_reset_connection_triggered(st0) ==
    LET st == Enter(st0, "on_action_reset_connection_triggered")
        old == deleteManager(IF st.loggedIn THEN logout(st) ELSE st)
    IN [old EXCEPT !.loggedIn = FALSE, !.lip = FALSE, !.reply = NULL, !.net = <<>>,
                   !.list = resetTimes(@), !.idx = Idle]

\* MainWindow::on_action_load_triggered
on_action_load_triggered(st0, doc) ==
    LET st == Enter(st0, "on_action_load_triggered")
        r == loadFromJson(doc, st.list)
    IN IF r.ok THEN logMessage([st EXCEPT !.list = r.list], "log:File loaded successfully")
       ELSE logMessage([st EXCEPT !.list = r.list], "critical:Error opening file")

\* MainWindow::MainWindow
ExecInit ==
    /\ command_list = <<>>
    /\ currentCommandIdx = Idle
    /\ timerActive = FALSE
    /\ buttonsEnabled = TRUE
    /\ dryRun = FALSE
    /\ loggedIn = FALSE
    /\ loginInProgress = FALSE
    /\ reply = NULL
    /\ net = <<>>
    /\ now = 0
    /\ crashed = FALSE
    /\ trace = <<"MainWindow", "log:Ready">>

\* ------------------------------------------------------- events
\* QTimer::timeout of commandTimer.
TimerTick ==
    /\ ~crashed /\ timerActive
    /\ \E o \in LoginOutcomes, ub \in UBOutcomes :
          Becomes(on_command_timer_triggered(Cur, o, now, dryRun, ub))
    /\ UNCHANGED <<dryRun, now>>
    /\ UNCHANGED <<svars, rvars>>

\* MainWindow::on_runNextButton_clicked
RunNext ==
    /\ ~crashed /\ buttonsEnabled
    /\ \E o \in LoginOutcomes, ub \in UBOutcomes :
          Becomes(on_command_timer_triggered(Cur, o, now, dryRun, ub))
    /\ UNCHANGED <<dryRun, now>>
    /\ UNCHANGED <<svars, rvars>>

\* QNetworkReply::finished of the pending reply.
CommandCompleted ==
    /\ ~crashed /\ net # <<>> /\ reply # NULL
    /\ \E a \in Answers, ub \in UBOutcomes :
          Becomes(commandCompleted(Cur, Head(net), a, now, ub))
    /\ UNCHANGED <<dryRun, now>>
    /\ UNCHANGED <<svars, rvars>>

AddLogMessage ==
    /\ ~crashed /\ buttonsEnabled
    /\ Becomes(on_addLogMessageButton_clicked(Cur))
    /\ UNCHANGED <<dryRun, now>>
    /\ UNCHANGED <<svars, rvars>>

RunButton ==
    /\ ~crashed
    /\ Becomes(on_runButton_clicked(Cur))
    /\ UNCHANGED <<dryRun, now>>
    /\ UNCHANGED <<svars, rvars>>

ResetConnection ==
    /\ ~crashed
    /\ Becomes(on_action_reset_connection_triggered(Cur))
    /\ UNCHANGED <<dryRun, now>>
    /\ UNCHANGED <<svars, rvars>>

Load ==
    /\ ~crashed
    /\ \E doc \in Docs : Becomes(on_action_load_triggered(Cur, doc))
    /\ UNCHANGED <<dryRun, now>>
    /\ UNCHANGED <<svars, rvars>>

\* The user ticks or clears the dry-run check box.
ToggleDryRun ==
    /\ ~crashed
    /\ dryRun' = ~dryRun
    /\ UNCHANGED <<command_list, currentCommandIdx, timerActive, buttonsEnabled,
                   loggedIn, loginInProgress, reply, net, now, crashed, trace>>
    /\ UNCHANGED <<svars, rvars>>

\* A second passes.
AdvanceClock ==
    /\ ~crashed /\ now + 1 \in ClockValues
    /\ now' = now + 1
    /\ UNCHANGED <<command_list, currentCommandIdx, timerActive, buttonsEnabled, dryRun,
                   loggedIn, loginInProgress, reply, net, crashed, trace>>
    /\ UNCHANGED <<svars, rvars>>

ExecNext ==
    \/ TimerTick \/ RunNext \/ CommandCompleted \/ AddLogMessage \/ RunButton
    \/ ResetConnection \/ Load \/ ToggleDryRun \/ AdvanceClock

\* ------------------------------------------------ specifications
Init == StreamInit /\ RegInit /\ ExecInit

\* The reader thread decodes a frame.
Decode == (\E d \in Frames : decode(d)) /\ UNCHANGED <<lvars, evars, rvars>>
\* The window-length callback of the GUI.
SetWindow == (\E w \in WindowValues : w_sec(w)) /\ UNCHANGED <<lvars, evars, rvars>>
\* A chart refresh.
GetPoints == (\E key \in QueryKeys : get(key)) /\ UNCHANGED <<lvars, evars, rvars>>
\* The statistics refresh.
GetStats == get_stats /\ UNCHANGED <<lvars, evars, rvars>>

StreamNext == Decode \/ SetWindow \/ GetPoints \/ GetStats

\* One data_stream, driven by its reader thread and the GUI thread.
SpecStream == Init /\ [][StreamNext]_vars

\* The reader thread and the window-length callback alone.
DecodeNext == Decode \/ SetWindow

\* One data_stream that is fed frames and resized, and never queried.
SpecDecode == Init /\ [][DecodeNext]_vars

\* TestRunner's main window, its connection and the server.
SpecExec == Init /\ [][ExecNext]_vars

\* ------------------------------------------- data_stream, statement by statement
\* Documents the reader thread decodes in the interleaved model: both
\* channels present, and one document without mjd.
LockFrames ==
    {d \in Frames : /\ DOMAIN d.sci = FrameSci /\ d.has_bias /\ DOMAIN d.bias = FrameHk
                    /\ \A k \in FrameHk : d.bias[k] = 10}

\* The keys decode appends to, in the order of its two loops.
KeyOrder == <<"DEMQ1", "VG3_HK">>

\* Mutant of DecodeScope: the lock of decode covers the append loops only.
DecodeScopeAppendOnly == {"push"}

\* The statements of decode that run with `lock` alive: std::unique_lock
\* lock(_m) is the first statement and lives to the end of the function.
DecodeScope == {"push", "last", "trim", "exit"}

\* std::unique_lock lock(_m) returns once no other thread holds _m.
CanLock(m) == m = "free"

\* _m after a step of the reader thread that leaves it at pc.
ReaderMutex(m, pc) ==
    IF pc \in DecodeScope THEN "reader" ELSE IF m = "reader" THEN "free" ELSE m

\* decode: the lock is taken; a document without mjd returns at once.
RdEnter ==
    /\ rd.pc = "out" /\ CanLock(mtx)
    /\ \E d \in LockFrames :
          /\ d.has_mjd => n_frames < MaxFrames
          /\ rd' = [pc |-> IF d.has_mjd THEN "push" ELSE "exit", d |-> d,
                    todo |-> KeyOrder, half |-> FALSE]
    /\ mtx' = "reader"
    /\ UNCHANGED <<data, ws, last_mjd, n_frames, in_order, ret, gop>>
    /\ UNCHANGED <<evars, rvars>>

\* decode: one push_back, on .first and then on .second of the next key;
\* after the last key the loops are left.
RdPush ==
    /\ rd.pc = "push"
    /\ IF rd.todo = <<>>
       THEN /\ rd' = [rd EXCEPT !.pc = "last"]
            /\ data' = data
       ELSE LET k == Head(rd.todo)
                v == IF k \in sci THEN rd.d.sci[k] ELSE rd.d.bias[k]
            IN IF ~rd.half
               THEN /\ data' = [data EXCEPT ![k].first = Append(@, rd.d.mjd)]
                    /\ rd' = [rd EXCEPT !.half = TRUE]
               ELSE /\ data' = [data EXCEPT ![k].second = Append(@, v)]
                    /\ rd' = [rd EXCEPT !.half = FALSE, !.todo = Tail(@)]
    /\ mtx' = ReaderMutex(mtx, rd'.pc)
    /\ UNCHANGED <<ws, last_mjd, n_frames, in_order, ret, gop>>
    /\ UNCHANGED <<evars, rvars>>

\* decode: if(mjd > _last_mjd) _last_mjd = mjd.
RdLast ==
    /\ rd.pc = "last"
    /\ last_mjd' = NewLastMjd(rd.d.mjd, last_mjd)
    /\ in_order' = (in_order /\ rd.d.mjd >= last_mjd)
    /\ rd' = [rd EXCEPT !.pc = "trim"]
    /\ mtx' = ReaderMutex(mtx, rd'.pc)
    /\ UNCHANGED <<data, ws, n_frames, ret, gop>>
    /\ UNCHANGED <<evars, rvars>>

\* decode: the trim loops.
RdTrim ==
    /\ rd.pc = "trim"
    /\ data' = TrimAll(data, MjdCut(last_mjd, ws))
    /\ n_frames' = n_frames + 1
    /\ rd' = [rd EXCEPT !.pc = "exit"]
    /\ mtx' = ReaderMutex(mtx, rd'.pc)
    /\ UNCHANGED <<ws, last_mjd, in_order, ret, gop>>
    /\ UNCHANGED <<evars, rvars>>

\* decode returns: `lock` is destroyed.
RdExit ==
    /\ rd.pc = "exit"
    /\ rd' = [pc |-> "out"]
    /\ mtx' = ReaderMutex(mtx, rd'.pc)
    /\ UNCHANGED <<data, ws, last_mjd, n_frames, in_order, ret, gop>>
    /\ UNCHANGED <<evars, rvars>>

\* The calls the GUI thread makes.
GuiCalls ==
    {[pc |-> "body", fn |-> "get", key |-> k, w |-> 0] : k \in QueryKeys}
    \cup {[pc |-> "body", fn |-> "get_stats", key |-> "", w |-> 0]}
    \cup {[pc |-> "body", fn |-> "w_sec", key |-> "", w |-> w] : w \in WindowValues}

\* get(key), get_stats, w_sec(ws): the lock is taken.
GuiEnter ==
    /\ gop.pc = "out" /\ CanLock(mtx)
    /\ \E c \in GuiCalls : gop' = c
    /\ mtx' = "gui"
    /\ UNCHANGED <<data, ws, last_mjd, n_frames, in_order, ret, rd>>
    /\ UNCHANGED <<evars, rvars>>

\* The body of the call.
GuiBody ==
    /\ gop.pc = "body"
    /\ CASE gop.fn = "get" -> get(gop.key)
         [] gop.fn = "get_stats" -> get_stats
         [] OTHER -> w_sec(gop.w)
    /\ gop' = [gop EXCEPT !.pc = "exit"]
    /\ UNCHANGED <<mtx, rd>>
    /\ UNCHANGED <<evars, rvars>>

\* The call returns: `lock` is destroyed.
GuiExit ==
    /\ gop.pc = "exit"
    /\ gop' = [pc |-> "out"]
    /\ mtx' = IF mtx = "gui" THEN "free" ELSE mtx
    /\ UNCHANGED <<data, ws, last_mjd, n_frames, in_order, ret, rd>>
    /\ UNCHANGED <<evars, rvars>>

LockedNext ==
    \/ RdEnter \/ RdPush \/ RdLast \/ RdTrim \/ RdExit
    \/ GuiEnter \/ GuiBody \/ GuiExit

\* One data_stream: the reader thread in decode and the GUI thread in get,
\* get_stats and w_sec, interleaved statement by statement.
SpecLocked == Init /\ [][LockedNext]_vars

\* ------------------------------------------------------ polview events
\* l_item_check with state Checked, up to the point where it may block:
\* pols.insert, add_pol, new data_stream, d_stream[pol].reset(d).  The reset
\* destroys the stream the key held, which stops it and joins its thread.
ItemChecked ==
    /\ gui.pc = "idle" /\ n_streams < MaxStreams
    /\ \E i \in Items, draws \in [1..MaxTries -> Draws] :
          LET pol == ItemPol[i]
              r == TryMkfifo(pol, draws, 1, fs)
              new == n_streams + 1
              old == d_stream[pol]
              made == [streams EXCEPT ![new] = NewStream(r.path)]
          IN /\ ~checked[i]
             /\ checked' = [checked EXCEPT ![i] = TRUE]
             /\ pols' = pols \cup {pol}
             /\ IF ~r.is_ok
                THEN /\ gui' = Gone("terminated")
                     /\ UNCHANGED <<d_stream, streams, n_streams, fs, out>>
                ELSE /\ fs' = fs \cup {r.path}
                     /\ out' = Append(out, AttachMsg(pol, r.path))
                     /\ n_streams' = new
                     /\ d_stream' = [d_stream EXCEPT ![pol] = new]
                     /\ IF old = NoStream
                        THEN streams' = start(made, new) /\ gui' = Idling
                        ELSE streams' = stop(made, old) /\ gui' = Joining(old, new)
    /\ UNCHANGED <<bk_seen, bk_known, bk_open>>
    /\ UNCHANGED <<svars, evars>>

\* ~data_stream returns from _th.join(); l_item_check goes on with
\* d_stream[pol]->start().
JoinReturns ==
    /\ gui.pc = "joining" /\ streams[gui.old].th = "done"
    /\ streams' = start([streams EXCEPT ![gui.old] = Freed], gui.new)
    /\ gui' = Idling
    /\ UNCHANGED <<checked, pols, d_stream, n_streams, fs, out, bk_seen, bk_known, bk_open>>
    /\ UNCHANGED <<svars, evars>>

\* l_item_check with state Unchecked: pols.erase, d_stream.at(pol)->stop(),
\* del_pol.  at() throws when the key is missing.
ItemUnchecked ==
    /\ gui.pc = "idle"
    /\ \E i \in Items :
          LET pol == ItemPol[i]
          IN /\ checked[i]
             /\ checked' = [checked EXCEPT ![i] = FALSE]
             /\ pols' = pols \ {pol}
             /\ IF d_stream[pol] = NoStream
                THEN gui' = Gone("terminated") /\ UNCHANGED <<streams, out>>
                ELSE /\ streams' = stop(streams, d_stream[pol])
                     /\ out' = Append(out, DetachMsg(pol))
                     /\ gui' = gui
    /\ UNCHANGED <<d_stream, n_streams, fs, bk_seen, bk_known, bk_open>>
    /\ UNCHANGED <<svars, evars>>

\* app.exec() returns.
Quit ==
    /\ gui.pc = "idle"
    /\ gui' = Teardown(1)
    /\ UNCHANGED <<checked, pols, d_stream, streams, n_streams, fs, out,
                   bk_seen, bk_known, bk_open>>
    /\ UNCHANGED <<svars, evars>>

\* The loop after app.exec(): ds.second.reset() for the next key of
\* d_stream, which stops the stream and joins its thread.
TeardownNext ==
    /\ gui.pc = "teardown"
    /\ IF gui.key > Len(PolOrder)
       THEN gui' = Gone("exited") /\ UNCHANGED streams
       ELSE IF d_stream[PolOrder[gui.key]] = NoStream
       THEN gui' = Teardown(gui.key + 1) /\ UNCHANGED streams
       ELSE /\ streams' = stop(streams, d_stream[PolOrder[gui.key]])
            /\ gui' = TeardownJoin(gui.key, d_stream[PolOrder[gui.key]])
    /\ UNCHANGED <<checked, pols, d_stream, n_streams, fs, out, bk_seen, bk_known, bk_open>>
    /\ UNCHANGED <<svars, evars>>

\* The join of that reset returns; cs.del_pol(ds.first) follows.
TeardownJoined ==
    /\ gui.pc = "td_join" /\ streams[gui.old].th = "done"
    /\ streams' = [streams EXCEPT ![gui.old] = Freed]
    /\ d_stream' = [d_stream EXCEPT ![PolOrder[gui.key]] = NoStream]
    /\ out' = Append(out, DetachMsg(PolOrder[gui.key]))
    /\ gui' = Teardown(gui.key + 1)
    /\ UNCHANGED <<checked, pols, n_streams, fs, bk_seen, bk_known, bk_open>>
    /\ UNCHANGED <<svars, evars>>

\* data_stream::proceed at while(_go): parse the next document, or leave
\* the loop, close the stream and remove the FIFO.
ThCheckOf(s) ==
    /\ Running
    /\ streams[s].alive /\ streams[s].th = "check"
    /\ IF streams[s].go
       THEN streams' = [streams EXCEPT ![s].th = "parse"] /\ fs' = fs
       ELSE /\ streams' = [streams EXCEPT ![s].th = "done"]
            /\ fs' = fs \ {streams[s].path}
    /\ UNCHANGED <<checked, pols, d_stream, n_streams, out, bk_seen, bk_known, bk_open, gui>>
    /\ UNCHANGED <<svars, evars>>

ThCheck == \E s \in 1..MaxStreams : ThCheckOf(s)

\* ParseStream meets the end of the stream: the writer end is closed.
ThEofOf(s) ==
    /\ Running
    /\ streams[s].alive /\ streams[s].th = "parse"
    /\ streams[s].path \notin bk_open
    /\ streams' = [streams EXCEPT ![s].th = "check"]
    /\ UNCHANGED <<checked, pols, d_stream, n_streams, fs, out, bk_seen, bk_known, bk_open, gui>>
    /\ UNCHANGED <<svars, evars>>

ThEof == \E s \in 1..MaxStreams : ThEofOf(s)

\* The backend reads the next object of stdout: it notes the FIFO of an
\* attach_pipe, and on detach_pipe closes the writer end of that polarimeter.
BackendRead ==
    /\ Running /\ bk_seen < Len(out)
    /\ bk_seen' = bk_seen + 1
    /\ LET m == out[bk_seen + 1]
       IN IF m.cmd = "attach_pipe"
          THEN bk_known' = bk_known \cup {m.path} /\ bk_open' = bk_open
          ELSE /\ bk_known' = {q \in bk_known : q[2] # m.pol}
               /\ bk_open' = {q \in bk_open : q[2] # m.pol}
    /\ UNCHANGED <<checked, pols, d_stream, streams, n_streams, fs, out, gui>>
    /\ UNCHANGED <<svars, evars>>

\* The backend opens a FIFO for writing, which lets the ifstream
\* constructor of proceed return.
BackendOpen ==
    /\ Running
    /\ \E s \in 1..MaxStreams :
          /\ streams[s].alive /\ streams[s].th = "open"
          /\ streams[s].path \in bk_known
          /\ bk_known' = bk_known \ {streams[s].path}
          /\ bk_open' = bk_open \cup {streams[s].path}
          /\ streams' = [streams EXCEPT ![s].th = "check"]
    /\ UNCHANGED <<checked, pols, d_stream, n_streams, fs, out, bk_seen, gui>>
    /\ UNCHANGED <<svars, evars>>

\* The backend writes a frame, ParseStream returns it and decode stores it.
BackendWrite ==
    /\ Running
    /\ \E s \in 1..MaxStreams :
          /\ streams[s].alive /\ streams[s].th = "parse"
          /\ streams[s].path \in bk_open /\ streams[s].fed < MaxFed
          /\ streams' = [streams EXCEPT ![s].th = "check", ![s].fed = @ + 1]
    /\ UNCHANGED <<checked, pols, d_stream, n_streams, fs, out, bk_seen, bk_known,
                   bk_open, gui>>
    /\ UNCHANGED <<svars, evars>>

RegNext ==
    \/ ItemChecked \/ JoinReturns \/ ItemUnchecked \/ Quit \/ TeardownNext
    \/ TeardownJoined \/ ThCheck \/ ThEof \/ BackendRead \/ BackendOpen \/ BackendWrite

\* polview's main thread, its streams' reader threads and the backend.
SpecReg == Init /\ [][RegNext]_vars

\* The same, where no thread that can run is held back for ever: each
\* reader thread, the main thread once its join can return, and a backend
\* that reads every object written to stdout.
SpecRegFair ==
    /\ SpecReg
    /\ \A s \in 1..MaxStreams : WF_vars(ThCheckOf(s)) /\ WF_vars(ThEofOf(s))
    /\ WF_vars(BackendRead)
    /\ WF_vars(JoinReturns)
    /\ WF_vars(TeardownNext)
    /\ WF_vars(TeardownJoined)

\* ------------------------------------------------ FIFOs already in /tmp
\* A file appears at a path add_pol may draw: another instance of the
\* program, or one that ended without removing its FIFO, made it (rand() is
\* not seeded, so every run draws the same suffixes).
ForeignFifo ==
    /\ Running
    /\ \E p \in Pols, d \in Draws :
          /\ FifoPath(p, randomString(d)) \notin fs
          /\ fs' = fs \cup {FifoPath(p, randomString(d))}
    /\ UNCHANGED <<checked, pols, d_stream, streams, n_streams, out,
                   bk_seen, bk_known, bk_open, gui>>
    /\ UNCHANGED <<svars, evars>>

AddPolNext == ItemChecked \/ ItemUnchecked \/ ForeignFifo

\* The check boxes of polview with a /tmp that other processes write to.
SpecAddPol == Init /\ [][AddPolNext]_vars

\* -------------------------------------------------- wait scripts
\* Elements of a script array handed to loadFromJson, wait scripts only.
MaxWaitScript == 2

\* A wait of zero seconds.
wait0 == [is_object |-> TRUE,
          m |-> [kind |-> "wait", path |-> "", command |-> [wait_time_s |-> 0]]]
WaitPool == {cmdX, wait0, wait1}
WaitDocs == {[is_array |-> TRUE, elems |-> e] : e \in SeqsUpTo(WaitPool, MaxWaitScript)}

\* The user loads a script as the first thing after start.
LoadScript ==
    /\ ~crashed /\ trace[1] = "MainWindow"
    /\ \E doc \in WaitDocs : Becomes(on_action_load_triggered(Cur, doc))
    /\ UNCHANGED <<dryRun, now>>
    /\ UNCHANGED <<svars, rvars>>

WaitNext ==
    \/ LoadScript \/ TimerTick \/ RunNext \/ CommandCompleted \/ RunButton
    \/ ToggleDryRun \/ AdvanceClock

\* TestRunner running one script of commands and waits.
SpecWait == Init /\ [][WaitNext]_vars
\* -------------------------------------------------- scripts of every kind
\* Elements of a script array, one of every kind.
MaxKindScript == 2

logX == [is_object |-> TRUE,
         m |-> [kind |-> "log", path |-> "/rest/log", command |-> [message |-> "hello"]]]
tagX == [is_object |-> TRUE,
         m |-> [kind |-> "tag", path |-> "/rest/tag", command |-> [tag |-> "T"]]]
bareX == [is_object |-> TRUE,
          m |-> [path |-> "/rest/bare", command |-> [base_addr |-> "A"]]]
bogusX == [is_object |-> TRUE,
           m |-> [kind |-> "bogus", path |-> "/rest/bogus", command |-> [base_addr |-> "A"]]]
KindPool == {cmdX, logX, tagX, wait1, bareX, bogusX}
KindDocs == {[is_array |-> TRUE, elems |-> e] : e \in SeqsUpTo(KindPool, MaxKindScript)}

\* The type loadFromJson of src/TestRunner/commandlist.cpp gives: its chain
\* of comparisons of "kind" has no branch for "wait", which falls into the
\* final else as every unknown kind does.
SourceTyped(list) ==
    [i \in 1..Len(list) |-> [list[i] EXCEPT !.type = IF @ = "Wait" THEN "None" ELSE @]]

\* The user loads a script as the first thing after start, with the loader
\* of src/TestRunner/commandlist.cpp.
LoadKinds ==
    /\ ~crashed /\ trace[1] = "MainWindow"
    /\ \E doc \in KindDocs :
          LET st == on_action_load_triggered(Cur, doc)
          IN Becomes([st EXCEPT !.list = SourceTyped(@)])
    /\ UNCHANGED <<dryRun, now>>
    /\ UNCHANGED <<svars, rvars>>

KindsNext ==
    \/ LoadKinds \/ TimerTick \/ RunNext \/ CommandCompleted \/ RunButton \/ AdvanceClock

\* TestRunner running one script loaded by the loader of src.
SpecKinds == Init /\ [][KindsNext]_vars

\* ------------------------------------------------- a run that is answered
\* The timer fires; the login finds its configuration and posts.
TickPosted ==
    /\ ~crashed /\ timerActive
    /\ \E ub \in UBOutcomes :
          Becomes(on_command_timer_triggered(Cur, "posted", now, dryRun, ub))
    /\ UNCHANGED <<dryRun, now>>
    /\ UNCHANGED <<svars, rvars>>

\* The server answers the pending request with {"status": "OK"}.
AnswerOK ==
    /\ ~crashed /\ net # <<>> /\ reply # NULL
    /\ \E ub \in UBOutcomes :
          Becomes(commandCompleted(Cur, Head(net),
                                   [transport_error |-> FALSE,
                                    body |-> [is_object |-> TRUE, obj |-> [status |-> StatusOK]]],
                                   now, ub))
    /\ UNCHANGED <<dryRun, now>>
    /\ UNCHANGED <<svars, rvars>>

\* The user presses Run while the timer is stopped.
StartRun ==
    /\ ~crashed /\ ~timerActive
    /\ Becomes(on_runButton_clicked(Cur))
    /\ UNCHANGED <<dryRun, now>>
    /\ UNCHANGED <<svars, rvars>>

LiveNext ==
    \/ LoadScript \/ StartRun \/ TickPosted \/ AnswerOK \/ ToggleDryRun \/ AdvanceClock

\* TestRunner running one script: the timer fires as long as it is active,
\* every request is answered, and time passes.
SpecLive ==
    /\ Init /\ [][LiveNext]_vars
    /\ WF_vars(TickPosted) /\ WF_vars(AnswerOK) /\ WF_vars(AdvanceClock)

\* ------------------------------------- data_stream, any key for get(key)
\* Keys a caller of the public get(key) may pass: catalog keys and one
\* string that is no channel name.
AnyKeys == QueryKeys \cup {"FOO"}

\* get(key) called with any string.
GetAnyKey == (\E key \in AnyKeys : get(key)) /\ UNCHANGED <<lvars, evars, rvars>>

KeysNext == Decode \/ GetAnyKey \/ GetStats

\* One data_stream whose get(key) is called with arbitrary keys.
SpecKeys == Init /\ [][KeysNext]_vars

\* ------------------------------------ data_stream, windows of either sign
\* w_sec(double) stores any value: a negative window and the empty one.
TrimWindows == {-1, 0}

\* The window-length callback with any double.
SetAnyWindow == (\E w \in TrimWindows : w_sec(w)) /\ UNCHANGED <<lvars, evars, rvars>>

\* The frames fed while the window varies: every mjd, with or without
\* an SCI sample, with or without an HK sample; one value per channel, as
\* the trim looks at the mjd alone.
TrimFrames == {d \in MjdFrames : d.has_bias /\ \A k \in DOMAIN d.bias : d.bias[k] = 10}

DecodeTrim == (\E d \in TrimFrames : decode(d)) /\ UNCHANGED <<lvars, evars, rvars>>

TrimNext == DecodeTrim \/ SetAnyWindow

\* One data_stream that is fed frames while its window is set to any value.
SpecTrim == Init /\ [][TrimNext]_vars

\* ============================================================ claims
\* Sum of a sequence and sum of its squares, as the formulas of the claims
\* use them.
RECURSIVE SumSeq(_)
SumSeq(v) == IF v = <<>> THEN 0 ELSE SumSeq(SubSeq(v, 1, Len(v) - 1)) + v[Len(v)]
SquaresOf(v) == [i \in 1..Len(v) |-> v[i] * v[i]]

\* C1: for every channel of the stream, in every reachable state, the mjd
\* deque and the value deque have the same length.
C1_EqualLengths ==
    \A k \in DOMAIN data : Len(data[k].first) = Len(data[k].second)

\* C1 witness: three frames decoded, the window shrunk in between so that the
\* third decode trimmed a sample, and a snapshot read after it.
C1_Witness ==
    /\ n_frames = 3
    /\ ws = 1
    /\ data["VG3_HK"].first = <<1, 2>>
    /\ Len(data["VG3_HK"].second) = 2
    /\ ret.kind = "points"

\* C2 as stated: after the decode of any frame carrying mjd, every retained
\* sample of every channel has mjd >= last_mjd - window, for every sequence
\* of frames.
C2_AllSamplesInWindow ==
    [][n_frames' # n_frames =>
        \A k \in DOMAIN data' : \A i \in 1..Len(data'[k].first) :
            data'[k].first[i] >= last_mjd' - ws']_svars

\* C2 amended: after the decode of any frame carrying mjd, the head sample of
\* every non-empty channel has mjd >= last_mjd - window; every retained sample
\* has, when the frames were decoded in non-decreasing mjd order.
C2_WindowAfterDecode ==
    [][n_frames' # n_frames =>
        /\ \A k \in DOMAIN data' :
              data'[k].first # <<>> => Head(data'[k].first) >= last_mjd' - ws'
        /\ in_order' =>
              \A k \in DOMAIN data' : \A i \in 1..Len(data'[k].first) :
                  data'[k].first[i] >= last_mjd' - ws']_svars

\* C2 witness: frames at 0, 1, 2 in order, the window set to 0 before the
\* last one, whose trim dropped both earlier samples.
C2_Witness ==
    /\ in_order
    /\ n_frames = 3
    /\ ws = 0
    /\ last_mjd = 2
    /\ data["VG3_HK"].first = <<2>>
    /\ ret.kind = "none"

\* The part of C3 that holds for every frame order: one point per retained
\* sample, in buffer order, x = last_mjd - mjd, y = value, x never negative,
\* and an empty channel gives an empty vector.
C3_PointsOfBuffer ==
    ret.kind = "points" =>
        LET buf == data[ret.key]
            pts == ret.points
        IN /\ Len(pts) = Len(buf.first)
           /\ buf.first = <<>> => pts = <<>>
           /\ \A i \in 1..Len(pts) :
                 /\ pts[i].x = last_mjd - buf.first[i]
                 /\ pts[i].y = buf.second[i]
                 /\ pts[i].x >= 0

C3_NonIncreasing ==
    ret.kind = "points" =>
        \A i \in 1..(Len(ret.points) - 1) : ret.points[i].x >= ret.points[i + 1].x

\* C3 as stated: get(key) returns the points of the buffer and their x are
\* non-increasing as i increases, whatever frames were decoded.
C3_SnapshotOrdered == C3_PointsOfBuffer /\ C3_NonIncreasing

\* C3 amended: get(key) returns one point per retained sample in buffer
\* order with x = (last_mjd - mjd) * 86400 >= 0 and y = value (empty for an
\* empty channel); the x are non-increasing when the frames were decoded in
\* non-decreasing mjd order.
C3_SnapshotOfBuffer == C3_PointsOfBuffer /\ (in_order => C3_NonIncreasing)

\* C3 witness: a snapshot of two samples decoded in order, the older first
\* and further in the past.
C3_Witness ==
    /\ in_order
    /\ ret.kind = "points"
    /\ Len(ret.points) = 2
    /\ ret.points[1].x > ret.points[2].x
    /\ ret.points[2].x = 0

\* C4: get_stats reports HK channels only, never an SCI channel, and no
\* entry for an HK channel whose buffer is empty: its row stays "NaN".
C4_StatsHkOnly ==
    ret.kind = "stats" =>
        /\ DOMAIN ret.stats \subseteq hk
        /\ DOMAIN ret.stats \cap sci = {}
        /\ \A k \in hk : data[k].second = <<>> =>
              /\ k \notin DOMAIN ret.stats
              /\ UpdateStatsRows(ret.stats)[k] = "NaN"

\* C4 witness: statistics read while an SCI and an HK channel hold samples
\* and another HK channel is empty.
C4_Witness ==
    /\ ret.kind = "stats"
    /\ data["DEMQ1"].second # <<>>
    /\ data["VG3_HK"].second # <<>>
    /\ data["VD0_HK"].second = <<>>
    /\ "VG3_HK" \in DOMAIN ret.stats

\* C5: for every HK channel with N >= 1 retained samples get_stats returns
\* mean = S1/N and stdev^2 = (N*S2 - S1^2)/N^2, with S1 the sum and S2 the
\* sum of squares of the retained values (the population variance); the
\* values 10, 12, 14 give mean 12 and variance 8/3.
C5_PopulationStats ==
    ret.kind = "stats" =>
        \A k \in hk : data[k].second # <<>> =>
            /\ k \in DOMAIN ret.stats
            /\ LET v == data[k].second
                   N == Len(v)
                   S1 == SumSeq(v)
                   S2 == SumSeq(SquaresOf(v))
                   mean == ret.stats[k].mean
                   var == ret.stats[k].stdev_sq
               IN /\ mean[2] # 0 /\ var[2] # 0
                  /\ mean[1] * N = S1 * mean[2]
                  /\ var[1] * N * N = (N * S2 - S1 * S1) * var[2]
                  /\ v = <<10, 12, 14>> =>
                        /\ mean[1] = 12 * mean[2]
                        /\ 3 * var[1] = 8 * var[2]

\* C5 witness: statistics read with VG3_HK holding 10, 12, 14.
C5_Witness ==
    /\ ret.kind = "stats"
    /\ data["VG3_HK"].second = <<10, 12, 14>>
    /\ "VG3_HK" \in DOMAIN ret.stats

\* ------------------------------------------------------------ TestRunner
Signals == {"success", "error:transport", "error:no status", "error:invalid JSON",
            "error:status"}
SignalCount == Cardinality({i \in 1..Len(trace) : trace[i] \in Signals})
Logged(msg) == \E i \in 1..Len(trace) : trace[i] = msg
LoggedNext(msg) == \E i \in 1..Len(trace') : trace'[i] = msg
TickStep == trace'[1] = "on_command_timer_triggered" /\ now' = now /\ dryRun' = dryRun
IssuingHandlers == {"on_command_timer_triggered", "on_addLogMessageButton_clicked"}

\* C6: the connection never has more than one request in flight, and a
\* handler that issues a login or a send while a reply is pending posts
\* nothing and leaves the pending request as it was.
C6_SingleRequest ==
    [][/\ Len(net') <= 1
       /\ (reply # NULL /\ trace'[1] \in IssuingHandlers /\ now' = now /\ dryRun' = dryRun)
            => (reply' = reply /\ net' = net)]_vars

\* A command was dispatched while the login request was pending: its send
\* was rejected and the login request is still the one in flight.
C6_Witness ==
    /\ reply # NULL
    /\ reply.path = "rest/login"
    /\ currentCommandIdx # Idle
    /\ net = <<reply>>
    /\ Logged("log:Running command")

\* C7: a completed request raises exactly one signal, success or error.
C7_OneSignal == trace[1] = "commandCompleted" => SignalCount = 1

\* C8: a request in flight implies that currentCommandIdx points at a command.
C8_InFlightHasIndex == reply # NULL => currentCommandIdx # Idle

\* C9: the commands whose time is set form a prefix of the script.
C9_StampedPrefix ==
    \A i, j \in 1..Len(command_list) :
        (i < j /\ command_list[j].time # NullTime) => command_list[i].time # NullTime

\* Every command has run and every wait has started and elapsed at time t.
AllDone(list, t) ==
    \A i \in 1..Len(list) :
        /\ list[i].time # NullTime
        /\ list[i].type = "Wait" => t - list[i].time >= WaitTime(list[i])

Passed(c, t) ==
    /\ c.time # NullTime
    /\ c.type = "Wait" => t - c.time >= WaitTime(c)

\* The first step of the script that is not passed at t (Len + 1 if none).
FirstPending(list, t) ==
    IF \E i \in 1..Len(list) : ~Passed(list[i], t)
    THEN CHOOSE i \in 1..Len(list) :
             ~Passed(list[i], t) /\ \A h \in 1..(i - 1) : Passed(list[h], t)
    ELSE Len(list) + 1

\* The tick reaches its scan: no answer is awaited and the login step passed.
ScanRuns ==
    currentCommandIdx = Idle /\ ~LoggedNext("log:Error connecting to the server")

\* The step dispatches command j: it becomes the current command, or (dry
\* run) gets its time.
Dispatched(j) ==
    /\ command_list[j].type # "Wait"
    /\ \/ currentCommandIdx' = j - 1 /\ currentCommandIdx = Idle
       \/ command_list'[j].time # command_list[j].time

HandlerStep(h) == trace'[1] = h /\ now' = now /\ dryRun' = dryRun

\* C17: resetting the connection leaves currentCommandIdx = -1, the same
\* commands with every time cleared, and a connection that is not logged
\* in, has no login in progress and no request in flight, whatever the
\* state before.
C17_Reset ==
    [][HandlerStep("on_action_reset_connection_triggered") =>
        /\ currentCommandIdx' = Idle
        /\ command_list' = [i \in 1..Len(command_list) |->
                               [command_list[i] EXCEPT !.time = NullTime]]
        /\ ~loggedIn' /\ ~loginInProgress'
        /\ reply' = NULL /\ net' = <<>>]_vars

\* The connection was reset while the timer ran: a loaded script, nothing
\* stamped, nothing pending.
C17_Witness ==
    /\ trace[1] = "on_action_reset_connection_triggered"
    /\ timerActive
    /\ Len(command_list) = 2
    /\ \A i \in 1..2 : command_list[i].time = NullTime
    /\ currentCommandIdx = Idle /\ reply = NULL /\ ~loggedIn

\* C18: the run button toggles the timer and changes neither the script,
\* nor any time, nor currentCommandIdx, nor the connection and its pending
\* request; a success that arrives while the timer is stopped still stamps
\* the current command; and while the timer is stopped a command is only
\* dispatched by the run-next button (which is enabled).
C18_Pause ==
    [][/\ HandlerStep("on_runButton_clicked") =>
            /\ timerActive' = ~timerActive
            /\ buttonsEnabled' = timerActive
            /\ UNCHANGED <<command_list, currentCommandIdx, loggedIn, loginInProgress,
                           reply, net, crashed>>
       /\ (/\ HandlerStep("commandCompleted") /\ ~timerActive
           /\ LoggedNext("success")
           /\ currentCommandIdx # Idle /\ currentCommandIdx < Len(command_list))
            => /\ command_list' = [command_list EXCEPT ![currentCommandIdx + 1].time = now]
               /\ currentCommandIdx' = Idle
               /\ ~timerActive'
       /\ (currentCommandIdx = Idle /\ currentCommandIdx' # Idle) => TickStep
       /\ (~timerActive /\ TickStep /\ \E j \in 1..Len(command_list) : Dispatched(j))
            => buttonsEnabled]_vars

\* The sequence was paused while the request of a command was pending.
C18_Witness ==
    /\ trace = <<"on_runButton_clicked", "log:Command sequence paused">>
    /\ ~timerActive /\ buttonsEnabled
    /\ reply # NULL /\ reply.path = "/rest/x"
    /\ currentCommandIdx # Idle
    /\ command_list[currentCommandIdx + 1].time = NullTime

\* C19: with dry run enabled, a tick whose scan selects a command sends no
\* request for it (the only request the tick may post is the login), sets
\* the time of that one command and leaves currentCommandIdx = -1.
C19_DryRun ==
    [][(TickStep /\ ScanRuns /\ dryRun) =>
        LET k == FirstPending(command_list, now)
        IN (k <= Len(command_list) /\ command_list[k].type # "Wait")
            => /\ command_list' = [command_list EXCEPT ![k].time = now]
               /\ currentCommandIdx' = Idle
               /\ \/ net' = net /\ reply' = reply
                  \/ /\ reply = NULL /\ reply'.path = "rest/login"
                     /\ net' = Append(net, reply')]_vars

\* Logged in, a dry-run tick has run the second command of a script: its
\* time is set, nothing is pending, nothing was sent.
C19_Witness ==
    /\ dryRun /\ loggedIn
    /\ trace = <<"on_command_timer_triggered", "log:Running command">>
    /\ Len(command_list) = 2
    /\ command_list[1].time # NullTime /\ command_list[2].time # NullTime
    /\ currentCommandIdx = Idle
    /\ reply = NULL /\ net = <<>>

\* ------------------------------------------------------------ data_stream
\* Frames that carry mjd and neither an SCI key nor an HK key under bias.
MjdOnlyFrames ==
    {d \in MjdFrames : DOMAIN d.sci = {} /\ (~d.has_bias \/ DOMAIN d.bias = {})}

\* buf is what is left of old after dropping n samples from its head.
DroppedHead(old, buf, n) ==
    /\ n \in 0..Len(old.first)
    /\ buf.first = SubSeq(old.first, n + 1, Len(old.first))
    /\ buf.second = SubSeq(old.second, n + 1, Len(old.second))

\* C20 as stated: decoding a frame with mjd and no SCI / HK key leaves every
\* channel buffer as it was.
C20_BuffersUnchanged ==
    [][n_frames' # n_frames =>
        \A d \in MjdOnlyFrames : decode(d) => data' = data]_vars

\* C20, amended: decoding such a frame appends nothing, sets last_mjd to the
\* larger of last_mjd and the frame's mjd, and trims as every decode does:
\* each buffer keeps a tail of what it held, and holds the same samples
\* whenever its head sample is not older than last_mjd' - ws.
C20_OnlyTrims ==
    [][n_frames' # n_frames => \A d \in MjdOnlyFrames : decode(d) =>
        /\ last_mjd' = (IF d.mjd > last_mjd THEN d.mjd ELSE last_mjd)
        /\ ws' = ws
        /\ \A k \in DOMAIN data :
             /\ \E n \in 0..Len(data[k].first) : DroppedHead(data[k], data'[k], n)
             /\ (data[k].first = <<>> \/ data[k].first[1] >= last_mjd' - ws)
                  => data'[k] = data[k]]_vars

\* A sample taken at mjd 1 was followed by a frame with mjd 2 and no key:
\* last_mjd advanced and the sample, still inside the window, was kept.
C20_Witness ==
    /\ n_frames = 2 /\ in_order
    /\ last_mjd = 2 /\ ws = 1
    /\ data["VG3_HK"].first = <<1>>
    /\ data["DEMQ1"].first = <<>>

\* ------------------------------------------------------------ polview
\* The step writes one more object to stdout.
Wrote(cmd) ==
    /\ Len(out') = Len(out) + 1
    /\ out'[Len(out')].cmd = cmd
    /\ SubSeq(out', 1, Len(out)) = out

\* The data_stream objects that belong to polarimeter p.
StreamsOf(ss, p) == {s \in 1..MaxStreams : ss[s].alive /\ ss[s].path[2] = p}

\* C12: checking the item of a polarimeter that is already active writes
\* nothing to stdout, creates no FIFO and leaves the streams as they are.
C12_ActivateActiveNoop ==
    [][\A i \in Items :
         (~checked[i] /\ checked'[i] /\ ItemPol[i] \in pols)
           => (out' = out /\ fs' = fs /\ streams' = streams /\ d_stream' = d_stream)]_vars

\* C13: when detach_pipe for a polarimeter is written, no stream of that
\* polarimeter is left: its thread was joined and the stream is out of d_stream.
C13_JoinedBeforeDetach ==
    [][Wrote("detach_pipe") =>
        LET p == out'[Len(out')].pol
        IN d_stream'[p] = NoStream /\ StreamsOf(streams', p) = {}]_vars

\* C14: a step constructs a data_stream exactly when it writes attach_pipe,
\* once; the object carries the polarimeter of the item and a path
\* /tmp/strip.<pol>.<10 characters in A..Z>; the FIFO of that path did not
\* exist and now does; the new stream, which the key of the polarimeter now
\* holds, has that path.
C14_AttachOnce ==
    [][(n_streams' # n_streams \/ Wrote("attach_pipe") \/ fs' \ fs # {}) =>
        LET m == out'[Len(out')]
            new == n_streams'
        IN /\ Wrote("attach_pipe")
           /\ new = n_streams + 1
           /\ \E i \in Items : ~checked[i] /\ checked'[i] /\ m.pol = ItemPol[i]
           /\ Len(m.path) = 4
           /\ m.path[1] = "/tmp/strip." /\ m.path[2] = m.pol /\ m.path[3] = "."
           /\ Len(m.path[4]) = 10
           /\ \A j \in 1..Len(m.path[4]) : m.path[4][j] \in 65..90
           /\ m.path \notin fs /\ fs' = fs \cup {m.path}
           /\ streams'[new].alive /\ streams'[new].path = m.path
           /\ streams'[new].fed = 0
           /\ d_stream'[m.pol] = new]_vars

\* G0 was activated with the draws 27, 27, ...: one attach_pipe with the
\* path /tmp/strip.G0.BBBBBBBBBB, whose FIFO exists and which stream 1 reads.
C14_Witness ==
    /\ out = <<AttachMsg("G0", FifoPath("G0", [j \in 1..10 |-> 66]))>>
    /\ FifoPath("G0", [j \in 1..10 |-> 66]) \in fs
    /\ d_stream["G0"] = 1
    /\ streams[1].path = out[1].path
    /\ streams[1].th = "parse"

\* The polarimeter of stream s was deactivated: after the attach_pipe that
\* announced its FIFO, a detach_pipe for the polarimeter was written, and the
\* path was not announced again since.
Detached(s) ==
    \E j, k \in 1..Len(out) :
        /\ j < k
        /\ out[j] = AttachMsg(streams[s].path[2], streams[s].path)
        /\ out[k] = DetachMsg(streams[s].path[2])
        /\ \A i \in (k + 1)..Len(out) :
               out[i] # AttachMsg(streams[s].path[2], streams[s].path)

\* C15: after a polarimeter is deactivated the thread of its stream ends,
\* which removes the FIFO, whenever the backend reads the detach_pipe and
\* closes the writer end it holds, if any.
C15_FifoRemoved ==
    \A s \in 1..MaxStreams :
        (streams[s].alive /\ ~streams[s].go /\ Detached(s))
          ~> (~streams[s].alive \/ streams[s].th = "done" \/ gui.pc = "terminated")

\* C16: an activation that follows the deactivation of the same polarimeter
\* completes.
C16_ReactivateCompletes ==
    (/\ gui.pc = "joining"
     /\ Len(out) >= 2
     /\ out[Len(out) - 1] = DetachMsg(out[Len(out)].pol))
      ~> (gui.pc = "idle")

\* ------------------------------------------------------------ C21, C23
\* Every sample a buffer holds is inside the window that trails last.
AllInWindow(dat, last, w) ==
    \A k \in DOMAIN dat : \A i \in 1..Len(dat[k].first) : dat[k].first[i] >= last - w

\* The head sample of every buffer that is not empty is inside the window.
HeadsInWindow(dat, last, w) ==
    \A k \in DOMAIN dat : dat[k].first # <<>> => Head(dat[k].first) >= last - w

\* C21 as stated: a step that changes the window changes neither a buffer
\* nor last_mjd; the decode of the next frame that carries mjd leaves the
\* window as it is and leaves no sample older than last_mjd - ws in any buffer.
C21_TrimmedAtNextFrame ==
    [][/\ ws' # ws => (data' = data /\ last_mjd' = last_mjd /\ n_frames' = n_frames)
       /\ n_frames' # n_frames => (ws' = ws /\ AllInWindow(data', last_mjd', ws))]_vars

\* C21, amended: a step that changes the window changes neither a buffer nor
\* last_mjd; the decode of the next frame that carries mjd leaves the window
\* as it is and trims with it: no head sample is older than last_mjd - ws,
\* and no sample at all when the frames came in non-decreasing mjd order.
C21_WindowAtNextFrame ==
    [][/\ ws' # ws => (data' = data /\ last_mjd' = last_mjd /\ n_frames' = n_frames)
       /\ n_frames' # n_frames =>
            /\ ws' = ws
            /\ HeadsInWindow(data', last_mjd', ws)
            /\ in_order' => AllInWindow(data', last_mjd', ws)]_vars

\* Frames at 0 and 2 were decoded under the window of 300 s and the window
\* was then set to 1 s: the sample at 0, older than the new cutoff, is still
\* held until the next frame.
C21_Witness ==
    /\ in_order /\ n_frames = 2
    /\ last_mjd = 2 /\ ws = 1
    /\ data["VG3_HK"].first = <<0, 2>>
    /\ ret = NoRet

\* The mjd deque of every channel is non-decreasing from head to tail.
NonDecreasing(dat) ==
    \A k \in DOMAIN dat : \A i \in 1..(Len(dat[k].first) - 1) :
        dat[k].first[i] <= dat[k].first[i + 1]

\* C23 as stated: in every reachable state the mjd deque of every channel is
\* non-decreasing, whatever frames were decoded.
C23_MjdNonDecreasing == NonDecreasing(data)

\* C23, amended: the mjd deque of every channel is non-decreasing as long as
\* every frame decoded so far carried an mjd not lower than the ones before.
C23_MjdOrderedWhenFramesAre == in_order => NonDecreasing(data)

\* Three frames in order, the last two with the same mjd.
C23_Witness ==
    /\ in_order /\ n_frames = 3
    /\ data["DEMQ1"].first = <<0, 1, 1>>

\* ------------------------------------------------------------ C22
\* MainWindow::updateProgressBar: the commands whose time is not null.
RECURSIVE executedCommands(_)
executedCommands(list) ==
    IF list = <<>> THEN 0
    ELSE (IF Head(list).time # NullTime THEN 1 ELSE 0) + executedCommands(Tail(list))

\* Handlers that replace the script or clear its times.
ScriptHandlers == {"on_action_load_triggered", "on_action_reset_connection_triggered"}

\* C22: the number of commands whose time is set never exceeds the length of
\* the script, and no step other than a load or a reset of the connection
\* lowers it.
C22_ProgressMonotone ==
    [][/\ executedCommands(command_list') <= Len(command_list')
       /\ trace'[1] \notin ScriptHandlers =>
            executedCommands(command_list') >= executedCommands(command_list)]_vars

\* The answer to the second command of a script of two has just stamped it:
\* the count went from 1 to 2, the length of the script.
C22_Witness ==
    /\ trace = <<"commandCompleted", "success">>
    /\ Len(command_list) = 2
    /\ executedCommands(command_list) = 2
    /\ command_list[1].type = "Command" /\ command_list[2].type = "Command"
    /\ currentCommandIdx = Idle /\ ~dryRun

\* ------------------------------------------------------------ C25
\* The type a loaded command must have, by the path that tells the elements
\* of KindPool apart.
TypeByPath(path) ==
    CASE path = "" -> "Wait"
      [] path = "/rest/x" -> "Command"
      [] path = "/rest/log" -> "Log"
      [] path = "/rest/tag" -> "Tag"
      [] OTHER -> "None"

\* C25: a loaded element of kind "wait" is a Wait command, the kinds
\* "command", "log" and "tag" are Command, Log and Tag, a missing or unknown
\* kind is None; and no request for a wait element is ever posted.
C25_KindsLoaded ==
    /\ \A i \in 1..Len(command_list) :
          command_list[i].type = TypeByPath(command_list[i].path)
    /\ \A j \in 1..Len(net) : net[j].path # ""

\* ------------------------------------------------------------ C26 .. C29
\* The step is the completion of the pending request and it emitted sig.
Completed(sig) ==
    /\ trace'[1] = "commandCompleted" /\ reply # NULL /\ reply' = NULL
    /\ \E i \in 2..Len(trace') : trace'[i] = sig

ErrorSignals == Signals \ {"success"}

\* C26: a tick that finds the connection not logged in, and that ends with
\* the login still not completed, logs the connection error, stops the timer
\* and dispatches nothing: no command is selected, no time is set and no
\* request other than the login is posted.
C26_LoginGate ==
    [][(TickStep /\ currentCommandIdx = Idle /\ ~loggedIn /\ ~loggedIn') =>
        /\ LoggedNext("log:Error connecting to the server")
        /\ ~timerActive'
        /\ currentCommandIdx' = Idle
        /\ command_list' = command_list
        /\ \A j \in 1..Len(net') : net'[j] \in {net[k] : k \in 1..Len(net)}
                                   \/ net'[j].path = "rest/login"]_vars

\* C27: loggedIn becomes true only in the completion of a rest/login request
\* that emitted success and no error; and every completion leaves the
\* connection without a pending request.
C27_LoggedInOnlyByLogin ==
    [][/\ (~loggedIn /\ loggedIn') =>
            /\ reply # NULL /\ reply.path = "rest/login"
            /\ Completed("success")
            /\ \A sig \in ErrorSignals : ~Completed(sig)
       /\ (\E sig \in ErrorSignals : Completed(sig)) => (reply' = NULL /\ net' = <<>>)]_vars

\* C28: a tick that finds currentCommandIdx set returns at once: the script,
\* currentCommandIdx, the timer, the buttons, the connection and its pending
\* request are as before and nothing is logged.
C28_TickWhileInFlight ==
    [][(TickStep /\ currentCommandIdx # Idle) =>
        /\ trace' = <<"on_command_timer_triggered">>
        /\ UNCHANGED <<command_list, currentCommandIdx, timerActive, buttonsEnabled,
                       loggedIn, loginInProgress, reply, net, crashed>>]_vars

\* The timer fired while the answer to command 0 was awaited.
C28_Witness ==
    /\ trace = <<"on_command_timer_triggered">>
    /\ timerActive
    /\ currentCommandIdx = 0
    /\ reply # NULL /\ reply.path = "/rest/x"
    /\ command_list[1].time = NullTime

\* C29: a completion that emits error while a command is current leaves the
\* script and currentCommandIdx as they are; while currentCommandIdx is set
\* no tick posts a request; and currentCommandIdx is cleared only by a
\* completion that emits success or by a reset of the connection.
C29_ErrorDoesNotAdvance ==
    [][/\ (currentCommandIdx # Idle /\ \E sig \in ErrorSignals : Completed(sig)) =>
            (currentCommandIdx' = currentCommandIdx /\ command_list' = command_list)
       /\ (currentCommandIdx # Idle /\ TickStep) => net' = net
       /\ (currentCommandIdx # Idle /\ currentCommandIdx' = Idle) =>
            \/ trace'[1] = "on_action_reset_connection_triggered"
            \/ Completed("success")]_vars

\* ------------------------------------------------------------ C24
\* The attempts of one call of add_pol whose path is free.
FreeAttempts(pol, draws, files) ==
    {i \in 1..MaxTries : FifoPath(pol, randomString(draws[i])) \notin files}

\* C24, the loop: for every polarimeter, every five draws and the files now
\* in /tmp, add_pol succeeds exactly when one of the five paths is free, and
\* then with the path of the first free attempt; no sixth path is tried.
C24_FirstFreeOfFive ==
    \A p \in Pols, draws \in [1..MaxTries -> Draws] :
        LET r == TryMkfifo(p, draws, 1, fs)
            free == FreeAttempts(p, draws, fs)
        IN /\ r.is_ok <=> free # {}
           /\ r.is_ok =>
                \E i \in free : /\ \A j \in free : i <= j
                                /\ r.path = FifoPath(p, randomString(draws[i]))
           /\ ~r.is_ok => r.path = <<>>

\* C24, the call: a check of an item either creates one FIFO and writes one
\* attach_pipe, or, when add_pol throws, ends the program with nothing
\* written, no FIFO created and no stream constructed; and add_pol throws
\* only when a file of that polarimeter was in the way.
C24_AddPolFails ==
    [][\A i \in Items : (~checked[i] /\ checked'[i]) =>
         \/ /\ Wrote("attach_pipe")
            /\ Cardinality(fs' \ fs) = 1
            /\ gui'.pc \in {"idle", "joining"}
         \/ /\ gui'.pc = "terminated"
            /\ out' = out /\ fs' = fs
            /\ streams' = streams /\ n_streams' = n_streams /\ d_stream' = d_stream
            /\ \E q \in fs : q[2] = ItemPol[i]]_vars

\* C24: the loop and the call together.
C24_FiveAttempts == C24_FirstFreeOfFive /\ C24_AddPolFails

\* Both paths of G1 were taken when its item was checked: add_pol threw,
\* nothing was written and no stream exists.
C24_Witness ==
    /\ gui.pc = "terminated"
    /\ checked[3] /\ pols = {"G1"}
    /\ out = <<>> /\ n_streams = 0
    /\ \A d \in Draws : FifoPath("G1", randomString(d)) \in fs

\* ------------------------------------------------------------ C30
\* No document is half applied: decode is not between its lock and its
\* return, and no channel holds an mjd without its value.
NoFrameInProgress ==
    /\ rd.pc = "out"
    /\ \A k \in DOMAIN data : Len(data[k].first) = Len(data[k].second)

C31_DestroyTerminates ==
    (gui.pc \in {"joining", "td_join"}) ~> (gui.pc \notin {"joining", "td_join"})

\* ------------------------------------------------------------ C32
\* The last tick found every command with its time set, logged "Script
\* completed" and stopped the timer.
ScriptCompleted ==
    /\ \A i \in 1..Len(command_list) : command_list[i].time # NullTime
    /\ trace[1] = "on_command_timer_triggered"
    /\ Logged("log:Script completed")
    /\ ~timerActive
    /\ currentCommandIdx = Idle

\* The clock of the model ended while a wait that has started had not elapsed.
ClockEnded ==
    /\ now + 1 \notin ClockValues
    /\ \E i \in 1..Len(command_list) :
          /\ command_list[i].type = "Wait" /\ command_list[i].time # NullTime
          /\ now - command_list[i].time < WaitTime(command_list[i])

\* C32: once the timer runs, with the login posted and every request
\* answered with status OK, the script is eventually completed: every
\* command has its time set, "Script completed" is logged and the timer is
\* stopped.
C32_ScriptCompletes == timerActive ~> (ScriptCompleted \/ ClockEnded)

\* A script of two commands was run to its end by the timer.
C32_Witness ==
    /\ ScriptCompleted
    /\ loggedIn /\ ~dryRun
    /\ Len(command_list) = 2
    /\ \A i \in 1..2 : command_list[i].type = "Command"
    /\ reply = NULL

\* C33: outside dry-run a command that is not a wait gets its time set only
\* by the completion of a request that carried that command's own path and
\* parameters.
C33_StampedByOwnRequest ==
    [][\A i \in 1..Len(command_list) :
          (/\ ~dryRun
           /\ Len(command_list') = Len(command_list)
           /\ command_list[i].type # "Wait"
           /\ command_list[i].time = NullTime
           /\ command_list'[i].time # NullTime)
          => /\ trace'[1] = "commandCompleted"
             /\ net # <<>>
             /\ Head(net).path = command_list[i].path
             /\ Head(net).data = command_list[i].parameters]_vars

\* C34: currentCommandIdx is -1 or an index of the loaded script whose
\* command has no time yet, also after a shorter or empty script was loaded
\* while a request was in flight.
C34_IndexPointsAtUnset ==
    \/ currentCommandIdx = Idle
    \/ /\ currentCommandIdx \in 0..(Len(command_list) - 1)
       /\ command_list[currentCommandIdx + 1].time = NullTime

\* C35: a load that fails (the document is not an array, or one of its
\* elements is not an object) leaves command_list as it was.
C35_FailedLoadKeepsList ==
    [][(/\ HandlerStep("on_action_load_triggered")
        /\ LoggedNext("critical:Error opening file"))
       => command_list' = command_list]_vars

\* C36: the key set of _data is the catalog in every state, whatever key
\* get(key) was called with.
C36_KeySetIsCatalog == DOMAIN data = sci \cup hk

\* C37: the trim of decode removes from each buffer a prefix of what the
\* buffer holds after the frame's samples were appended; every removed
\* sample has mjd < last_mjd' - ws, so no sample at or above the cut is
\* removed; and when the frame's mjd is the new last_mjd and ws >= 0 the
\* samples the frame appended stay.
C37_TrimKeepsWindow ==
    [][n_frames' # n_frames => \A d \in TrimFrames : decode(d) =>
        LET appended == AppendFrame(d, data)
            cut == last_mjd' - ws
        IN \A k \in DOMAIN data :
             \E n \in 0..Len(appended[k].first) :
                /\ DroppedHead(appended[k], data'[k], n)
                /\ \A i \in 1..n : appended[k].first[i] < cut
                /\ \A i \in (n + 1)..Len(appended[k].first) :
                      appended[k].first[i] >= cut
                         => \E j \in 1..Len(data'[k].first) :
                               data'[k].first[j] = appended[k].first[i]
                /\ (ws >= 0 /\ d.mjd = last_mjd') => n <= Len(data[k].first)]_vars

\* With the empty window three frames were decoded in order: the samples
\* older than the last frame are gone, the two taken at last_mjd are kept.
C37_Witness ==
    /\ n_frames = 3 /\ in_order
    /\ ws = 0 /\ last_mjd = 2
    /\ data["VG3_HK"] = [first |-> <<2, 2>>, second |-> <<10, 10>>]
    /\ data["DEMQ1"].first = <<2, 2>>

\* C38: a reset leaves no request of the disposed connection behind, and
\* every completion that is delivered is that of the one request the
\* current connection has pending: no reply to a request issued before a
\* reset reaches commandCompleted, and so none stamps a command or changes
\* currentCommandIdx after the reset.
C38_NoLateCompletion ==
    [][/\ HandlerStep("on_action_reset_connection_triggered")
            => (net' = <<>> /\ reply' = NULL /\ currentCommandIdx' = Idle)
       /\ HandlerStep("commandCompleted")
            => (reply # NULL /\ net = <<reply>>)
       /\ (net = <<>> /\ trace'[1] # "commandCompleted")
            => \/ currentCommandIdx' = currentCommandIdx
               \/ trace'[1] \in {"on_command_timer_triggered",
                                 "on_action_reset_connection_triggered"}]_vars

\* The connection was reset while the request of the first command was in
\* flight and the timer ran: the reply was deleted with the manager, and
\* the script is back at its start.
C38_Witness ==
    /\ trace = <<"on_action_reset_connection_triggered", "deleted:reply">>
    /\ timerActive /\ ~dryRun
    /\ Len(command_list) = 2
    /\ \A i \in 1..2 : command_list[i].type = "Command" /\ command_list[i].time = NullTime
    /\ currentCommandIdx = Idle /\ reply = NULL /\ net = <<>>

====
